---- MODULE Spec2Model ----
(***************************************************************************)
(* Model of the error taxonomy (src/src/error.rs), the capability map      *)
(* manipulation of the mock test harness (src/tests/mock/main.rs) and the  *)
(* transport establishment (src/src/io/connect.rs) of new-tokio-smtp.      *)
(*                                                                         *)
(* Two specifications:                                                     *)
(*   SpecError   - the pure operations of error.rs applied to inputs drawn *)
(*                 in Init, with the advertised capability map built by    *)
(*                 with_capability;                                        *)
(*   SpecConnect - one connect operation (connect_insecure or              *)
(*                 connect_secure) from the call to its completion or to   *)
(*                 the point where the caller discards the pending future. *)
(***************************************************************************)
EXTENDS Integers, Sequences, FiniteSets, TLC

\* ------------------------------------------------------------------ bounds
MaxCaps == 3        \* longest capability list drawn as an input
MaxLines == 2       \* most message lines of a drawn Response

\* ------------------------------------------------------------ input domains
Keywords == {"STARTTLS", "AUTH", "SMTPUTF8"}
LeadDigits == 1..5
SubCodes == {0, 50}
LineTexts == {"OK", "bye"}
Addrs == {"10.0.0.1:25", "10.0.0.2:465", "[::1]:587"}
Domains == {"mail.test", "uhmail.test"}
TlsErrors == {"BadCertificate", "HandshakeFailure"}
IoErrorKinds == {"ConnectionRefused", "TimedOut", "HostUnreachable"}

SeqsUpTo(S, n) == UNION {[1..k -> S] : k \in 0..n}

VARIABLES
    \* --- error.rs / capability part
    response,     \* the Response handed to check_response
    required,     \* the list of capabilities a command requires
    ehlo_map,     \* the advertised capability mapping (keyword -> params)
    mc,           \* Option<MissingCapabilities> built by new / from
    ret,          \* the last call of a pure operation: its argument and what it returned
    \* --- connect.rs part
    op,           \* which connect operation was called
    pc,           \* the state of the returned future
    addr,         \* the socket address passed in
    domain,       \* TlsConfig.domain
    connector,    \* TRUE once the TlsConnector has been built
    stream,       \* the transport the pending future owns
    err,          \* Option<io::Error> the failed future carries
    result,       \* what the caller got out of polling the future
    dropped,      \* TRUE once the caller discarded the future while pending
    log           \* history: the phases that were entered, in order

errVars == <<response, required, ehlo_map, mc, ret>>
conVars == <<op, pc, addr, domain, connector, stream, err, result, dropped, log>>
vars == <<response, required, ehlo_map, mc, ret,
          op, pc, addr, domain, connector, stream, err, result, dropped, log>>

\* =================================================================== data
\* Capability wraps an EsmtpKeyword; as_str gives the keyword text back.
Capability(kw) == [keyword |-> kw]
as_str(cap) == cap.keyword

Capabilities == {Capability(k) : k \in Keywords}
CapLists == SeqsUpTo(Capabilities, MaxCaps)

Codes == {100 * d + s : d \in LeadDigits, s \in SubCodes}
Responses == [code : Codes, lines : SeqsUpTo(LineTexts, MaxLines) \ {<<>>}]

\* Response::is_erroneous: the leading digit of the code is 4 or 5.
is_erroneous(r) == (r.code \div 100) \in {4, 5}

\* ============================================================== error.rs
LogicError_Code(r) == [ok |-> FALSE, variant |-> "Code", response |-> r]
Ok_Response(r) == [ok |-> TRUE, variant |-> "none", response |-> r]

\* Variant: the two branches exchanged.
check_response_swapped(r) ==
    IF is_erroneous(r) THEN Ok_Response(r) ELSE LogicError_Code(r)

check_response(r) ==
    IF is_erroneous(r) THEN LogicError_Code(r) ELSE Ok_Response(r)

RECURSIVE Dedup(_)
Dedup(s) ==
    IF s = <<>> THEN <<>>
    ELSE LET front == Dedup(SubSeq(s, 1, Len(s) - 1))
             last == s[Len(s)]
         IN  IF \E i \in 1..Len(front) : front[i] = last
             THEN front ELSE Append(front, last)

RECURSIVE Reverse(_)
Reverse(s) == IF s = <<>> THEN <<>> ELSE Append(Reverse(Tail(s)), Head(s))

\* Variant: repeated capabilities dropped on construction.
MissingCapabilities_new_dedup(capabilities) == [capabilities |-> Dedup(capabilities)]

MissingCapabilities_new(capabilities) == [capabilities |-> capabilities]

MissingCapabilities_capabilities(self) == self.capabilities

MissingCapabilities_into(self) == self.capabilities

\* Variant: the list stored in reverse order.
MissingCapabilities_from_reversed(capabilities) == [capabilities |-> Reverse(capabilities)]

MissingCapabilities_from(capabilities) == [capabilities |-> capabilities]

\* The loop of Display::fmt: i is the iterator position, first the flag.
RECURSIVE fmt_loop(_, _, _, _)
fmt_loop(caps, i, first, out) ==
    IF i > Len(caps) THEN out
    ELSE fmt_loop(caps, i + 1, FALSE,
                  out \o (IF first THEN " " ELSE ", ") \o as_str(caps[i]))

\* Variant: no first flag, a separator written after every capability.
RECURSIVE fmt_loop_trailing(_, _, _)
fmt_loop_trailing(caps, i, out) ==
    IF i > Len(caps) THEN out
    ELSE fmt_loop_trailing(caps, i + 1, out \o " " \o as_str(caps[i]) \o ",")

MissingCapabilities_fmt_trailing(self) ==
    fmt_loop_trailing(self.capabilities, 1, "missing capabilities:")

MissingCapabilities_fmt(self) ==
    fmt_loop(self.capabilities, 1, TRUE, "missing capabilities:")

\* ====================================================== capability mapping
\* HashMap::insert: the entry of the key is replaced, never duplicated.
HashMap_insert(m, k, v) ==
    [x \in (DOMAIN m) \cup {k} |-> IF x = k THEN v ELSE m[x]]

\* The capability check of a command: the required capabilities that are
\* not keys of the advertised mapping, in the order of the requirement.
check_cmd_availability(req, m) ==
    LET missing == SelectSeq(req, LAMBDA c : c \notin DOMAIN m)
    IN  IF missing # <<>>
        THEN [ok |-> FALSE, missing |-> <<MissingCapabilities_new(missing)>>]
        ELSE [ok |-> TRUE, missing |-> <<>>]

\* ================================================================ actions
NoRet == [fn |-> "none", arg |-> <<>>, val |-> <<>>]
Pending == [tag |-> "Pending", io |-> <<>>, err |-> <<>>]

InitError ==
    /\ response \in Responses
    /\ required \in CapLists
    /\ ehlo_map = <<>>
    /\ mc = <<>>
    /\ ret = NoRet

InitConnect ==
    /\ op = "none"
    /\ pc = "Idle"
    /\ addr = "none"
    /\ domain = "none"
    /\ connector = FALSE
    /\ stream = "none"
    /\ err = <<>>
    /\ result = Pending
    /\ dropped = FALSE
    /\ log = <<>>

Init == InitError /\ InitConnect

call_check_response ==
    /\ ret' = [fn |-> "check_response", arg |-> response,
               val |-> check_response(response)]
    /\ UNCHANGED <<response, required, ehlo_map, mc>>
    /\ UNCHANGED conVars

with_capability(cap) ==
    /\ ehlo_map' = HashMap_insert(ehlo_map, Capability(cap), <<>>)
    /\ UNCHANGED <<response, required, mc, ret>>
    /\ UNCHANGED conVars

call_check_cmd_availability ==
    /\ ret' = [fn |-> "check_cmd_availability", arg |-> ehlo_map,
               val |-> check_cmd_availability(required, ehlo_map)]
    /\ UNCHANGED <<response, required, ehlo_map, mc>>
    /\ UNCHANGED conVars

call_new ==
    /\ mc' = <<MissingCapabilities_new(required)>>
    /\ ret' = [fn |-> "new", arg |-> required, val |-> <<>>]
    /\ UNCHANGED <<response, required, ehlo_map>>
    /\ UNCHANGED conVars

call_from ==
    /\ mc' = <<MissingCapabilities_from(required)>>
    /\ ret' = [fn |-> "from", arg |-> required, val |-> <<>>]
    /\ UNCHANGED <<response, required, ehlo_map>>
    /\ UNCHANGED conVars

call_capabilities ==
    /\ mc # <<>>
    /\ ret' = [fn |-> "capabilities", arg |-> mc[1],
               val |-> MissingCapabilities_capabilities(mc[1])]
    /\ UNCHANGED <<response, required, ehlo_map, mc>>
    /\ UNCHANGED conVars

\* into takes self by value: the MissingCapabilities is consumed.
call_into ==
    /\ mc # <<>>
    /\ ret' = [fn |-> "into", arg |-> mc[1], val |-> MissingCapabilities_into(mc[1])]
    /\ mc' = <<>>
    /\ UNCHANGED <<response, required, ehlo_map>>
    /\ UNCHANGED conVars

call_fmt ==
    /\ mc # <<>>
    /\ ret' = [fn |-> "fmt", arg |-> mc[1], val |-> MissingCapabilities_fmt(mc[1])]
    /\ UNCHANGED <<response, required, ehlo_map, mc>>
    /\ UNCHANGED conVars

NextError ==
    \/ call_check_response
    \/ \E cap \in Keywords : with_capability(cap)
    \/ call_check_cmd_availability
    \/ call_new
    \/ call_from
    \/ call_capabilities
    \/ call_into
    \/ call_fmt

SpecError == Init /\ [][NextError]_vars

\* ============================================================= connect.rs
HasEvent(e) == \E i \in 1..Len(log) : log[i] = e
Count(e) == Cardinality({i \in 1..Len(log) : log[i] = e})

\* map_tls_err: a TLS error becomes an io::Error that carries it as its cause.
map_tls_err(e) == [kind |-> "Other", inner |-> e]

\* The io::Error TcpStream::connect itself fails with.
connect_error(kind) == [kind |-> kind, inner |-> "none"]

\* Io::from: the Io wraps the plain stream or the TLS stream it is given.
Io_from(s, a) == [socket |-> IF s = "tls" THEN "Secure" ELSE "Insecure", peer |-> a]

Ready_Ok(io) == [tag |-> "Ok", io |-> <<io>>, err |-> <<>>]
Ready_Err(e) == [tag |-> "Err", io |-> <<>>, err |-> <<e>>]

connect_insecure(a) ==
    /\ pc = "Idle"
    /\ op' = "insecure"
    /\ addr' = a
    /\ stream' = "connecting"
    /\ pc' = "ConnectingTcp"
    /\ log' = log \o <<"tcp_start">>
    /\ UNCHANGED <<domain, connector, err, result, dropped>>
    /\ UNCHANGED errVars

\* Variant: the TCP connect started before the setup result is looked at.
connect_secure_eager(a, d, setup) ==
    /\ pc = "Idle"
    /\ op' = "secure"
    /\ addr' = a
    /\ domain' = d
    /\ IF setup \in TlsErrors
       THEN /\ log' = log \o <<"tcp_start", "setup_err", "map_tls_err">>
            /\ err' = <<map_tls_err(setup)>>
            /\ connector' = FALSE
            /\ stream' = "none"
            /\ pc' = "Failed"
       ELSE /\ log' = log \o <<"tcp_start", "setup_ok">>
            /\ err' = <<>>
            /\ connector' = TRUE
            /\ stream' = "connecting"
            /\ pc' = "ConnectingTcp"
    /\ UNCHANGED <<result, dropped>>
    /\ UNCHANGED errVars

\* The synchronous part of connect_secure: the setup callback runs first and
\* its failure returns the already failed future; otherwise the TCP connect
\* is started and the handshake is chained behind it.
connect_secure(a, d, setup) ==
    /\ pc = "Idle"
    /\ op' = "secure"
    /\ addr' = a
    /\ domain' = d
    /\ IF setup \in TlsErrors
       THEN /\ log' = log \o <<"setup_err", "map_tls_err">>
            /\ err' = <<map_tls_err(setup)>>
            /\ connector' = FALSE
            /\ stream' = "none"
            /\ pc' = "Failed"
       ELSE /\ log' = log \o <<"setup_ok", "tcp_start">>
            /\ err' = <<>>
            /\ connector' = TRUE
            /\ stream' = "connecting"
            /\ pc' = "ConnectingTcp"
    /\ UNCHANGED <<result, dropped>>
    /\ UNCHANGED errVars

\* A poll of the future whose setup failed (Either::B(future::err(..))).
poll_failed ==
    /\ pc = "Failed"
    /\ result.tag = "Pending"
    /\ ~dropped
    /\ result' = Ready_Err(err[1])
    /\ UNCHANGED <<op, pc, addr, domain, connector, stream, err, dropped, log>>
    /\ UNCHANGED errVars

\* Variant: the handshake chained with then, so that it follows a failed connect.
connect_failed_then(o) ==
    /\ log' = log \o <<"tcp_err", "hs_start">>
    /\ stream' = "none"
    /\ pc' = "PerformingHandshake"
    /\ UNCHANGED <<err, result, connector>>

\* Variant: a connect failure reported as a failure of the connector.
connect_failed_masked(o) ==
    /\ log' = log \o <<"tcp_err">>
    /\ err' = <<map_tls_err("BadCertificate")>>
    /\ result' = Ready_Err(map_tls_err("BadCertificate"))
    /\ stream' = "none"
    /\ connector' = FALSE
    /\ pc' = "Failed"

\* Variant: a second connect attempt after the first one failed.
connect_failed_retry(o) ==
    IF Count("tcp_start") < 2
    THEN /\ log' = log \o <<"tcp_err", "tcp_start">>
         /\ stream' = "connecting"
         /\ UNCHANGED <<err, result, connector, pc>>
    ELSE /\ log' = log \o <<"tcp_err">>
         /\ err' = <<connect_error(o)>>
         /\ result' = Ready_Err(connect_error(o))
         /\ stream' = "none"
         /\ connector' = FALSE
         /\ pc' = "Failed"

\* TcpStream::connect resolved with an error: and_then skips its closure and
\* the error is what the future resolves to.
connect_failed(o) ==
    /\ log' = log \o <<"tcp_err">>
    /\ err' = <<connect_error(o)>>
    /\ result' = Ready_Err(connect_error(o))
    /\ stream' = "none"
    /\ connector' = FALSE
    /\ pc' = "Failed"

\* connect_insecure: the connected stream is mapped through Io::from.
connected_insecure ==
    /\ log' = log \o <<"tcp_ok", "io_from">>
    /\ result' = Ready_Ok(Io_from("tcp", addr))
    /\ stream' = "none"
    /\ pc' = "Ready"
    /\ UNCHANGED <<err, connector>>

\* Variant: the plain stream wrapped as Io without the handshake.
connected_secure_plain ==
    /\ log' = log \o <<"tcp_ok", "io_from">>
    /\ result' = Ready_Ok(Io_from("tcp", addr))
    /\ stream' = "none"
    /\ pc' = "Ready"
    /\ UNCHANGED <<err, connector>>

\* connect_secure: the and_then closure hands the connected stream to
\* connector.connect(domain, stream), which starts the handshake.
connected_secure ==
    /\ log' = log \o <<"tcp_ok", "hs_start">>
    /\ stream' = "tcp"
    /\ pc' = "PerformingHandshake"
    /\ UNCHANGED <<err, result, connector>>

\* A poll in which the TCP connect completes with outcome o.
poll_connect(o) ==
    /\ pc = "ConnectingTcp"
    /\ ~dropped
    /\ IF o \in IoErrorKinds THEN connect_failed(o)
       ELSE IF op = "insecure" THEN connected_insecure
       ELSE connected_secure
    /\ UNCHANGED <<op, addr, domain, dropped>>
    /\ UNCHANGED errVars

\* Variant: the handshake error passed on without map_err(map_tls_err).
poll_handshake_unmapped(o) ==
    /\ pc = "PerformingHandshake"
    /\ ~dropped
    /\ IF o \in TlsErrors
       THEN /\ log' = log \o <<"hs_err">>
            /\ err' = <<connect_error(o)>>
            /\ result' = Ready_Err(connect_error(o))
            /\ stream' = "none"
            /\ pc' = "Failed"
       ELSE /\ log' = log \o <<"hs_ok", "io_from">>
            /\ result' = Ready_Ok(Io_from("tls", addr))
            /\ stream' = "none"
            /\ pc' = "Ready"
            /\ UNCHANGED err
    /\ connector' = FALSE
    /\ UNCHANGED <<op, addr, domain, dropped>>
    /\ UNCHANGED errVars

\* A poll in which the TLS handshake completes with outcome o.
poll_handshake(o) ==
    /\ pc = "PerformingHandshake"
    /\ ~dropped
    /\ IF o \in TlsErrors
       THEN /\ log' = log \o <<"hs_err", "map_tls_err">>
            /\ err' = <<map_tls_err(o)>>
            /\ result' = Ready_Err(map_tls_err(o))
            /\ stream' = "none"
            /\ pc' = "Failed"
       ELSE /\ log' = log \o <<"hs_ok", "io_from">>
            /\ result' = Ready_Ok(Io_from("tls", addr))
            /\ stream' = "none"
            /\ pc' = "Ready"
            /\ UNCHANGED err
    /\ connector' = FALSE
    /\ UNCHANGED <<op, addr, domain, dropped>>
    /\ UNCHANGED errVars

\* The caller discards the future before it completed: everything the future
\* owns (socket, connector, stored error) is released with it.
drop_pending ==
    /\ pc \in {"ConnectingTcp", "PerformingHandshake", "Failed"}
    /\ result.tag = "Pending"
    /\ ~dropped
    /\ dropped' = TRUE
    /\ stream' = "none"
    /\ connector' = FALSE
    /\ UNCHANGED <<op, pc, addr, domain, err, result, log>>
    /\ UNCHANGED errVars

NextConnect ==
    \/ \E a \in Addrs : connect_insecure(a)
    \/ \E a \in Addrs, d \in Domains, s \in {"Ok"} \cup TlsErrors : connect_secure(a, d, s)
    \/ poll_failed
    \/ \E o \in {"Ok"} \cup IoErrorKinds : poll_connect(o)
    \/ \E o \in {"Ok"} \cup TlsErrors : poll_handshake(o)
    \/ drop_pending

\* The connect operations take nothing from the error part: its inputs are
\* held at one value while a connect operation runs.
InitFixed ==
    /\ Init
    /\ response = [code |-> 250, lines |-> <<"OK">>]
    /\ required = <<>>

SpecConnect == InitFixed /\ [][NextConnect]_vars

Next == NextError \/ NextConnect
Spec == Init /\ [][Next]_vars

\* ================================================================ claims
LeadDigit(r) == r.code \div 100

\* The elements of R that are no keys of M, taken from the head of R.
RECURSIVE Minus(_, _)
Minus(R, M) ==
    IF R = <<>> THEN <<>>
    ELSE IF Head(R) \in DOMAIN M THEN Minus(Tail(R), M)
    ELSE <<Head(R)>> \o Minus(Tail(R), M)

\* " c1" for the first capability and ", ci" for each later one.
RECURSIVE Joined(_)
Joined(L) ==
    IF Len(L) = 0 THEN ""
    ELSE IF Len(L) = 1 THEN " " \o L[1].keyword
    ELSE Joined(SubSeq(L, 1, Len(L) - 1)) \o ", " \o L[Len(L)].keyword

\* C1: check_response(r) is Err(LogicError::Code(r)) when the leading digit
\* of r's code is 4 or 5 and Ok(r) otherwise; the response carried in the
\* result equals r (code and lines), and the result is never UnexpectedCode
\* or Custom.
C1_CheckResponse ==
    ret.fn = "check_response" =>
        /\ LeadDigit(response) \in {4, 5} =>
              ret.val.ok = FALSE /\ ret.val.variant = "Code"
        /\ LeadDigit(response) \notin {4, 5} =>
              ret.val.ok = TRUE /\ ret.val.variant = "none"
        /\ ret.val.response.code = response.code
        /\ ret.val.response.lines = response.lines
        /\ ret.val.variant \notin {"UnexpectedCode", "Custom"}

C1_Witness ==
    /\ ret.fn = "check_response"
    /\ response.code = 450
    /\ Len(response.lines) = 2
    /\ ret.val.variant = "Code"

\* C8: the capability check fails with a MissingCapabilities whose list is
\* exactly the elements of the required list that are no keys of the
\* advertised mapping, in the order of the required list; it produces no
\* error when every required element is a key; a returned MissingCapabilities
\* is never empty.
C8_MissingIsRequiredMinusKeys ==
    ret.fn = "check_cmd_availability" =>
        LET expected == Minus(required, ret.arg)
        IN  /\ expected = <<>> => ret.val.ok = TRUE /\ ret.val.missing = <<>>
            /\ expected # <<>> =>
                  /\ ret.val.ok = FALSE
                  /\ Len(ret.val.missing) = 1
                  /\ MissingCapabilities_capabilities(ret.val.missing[1]) = expected
            /\ ret.val.ok = FALSE =>
                  MissingCapabilities_capabilities(ret.val.missing[1]) # <<>>

C8_Witness ==
    /\ ret.fn = "check_cmd_availability"
    /\ required = <<Capability("SMTPUTF8"), Capability("AUTH"), Capability("SMTPUTF8")>>
    /\ DOMAIN ret.arg = {Capability("AUTH")}
    /\ ret.val.ok = FALSE
    /\ Len(ret.val.missing[1].capabilities) = 2

\* C9: a MissingCapabilities built from a list L by new or by From gives L
\* back, same elements in the same order, from into and from capabilities(),
\* for the empty list and for lists with repeated elements too.
C9_RoundTrip ==
    /\ ret.fn \in {"into", "capabilities"} => ret.val = required
    /\ mc # <<>> => MissingCapabilities_into(mc[1]) = required

C9_Witness ==
    /\ ret.fn = "into"
    /\ required = <<Capability("AUTH"), Capability("STARTTLS"), Capability("AUTH")>>
    /\ ret.val = required

\* C10: Display writes "missing capabilities:" followed by " c1" for the
\* first capability and ", ci" for each later one, in list order, with no
\* trailing separator; for [STARTTLS, AUTH] the text is exactly
\* "missing capabilities: STARTTLS, AUTH".
C10_Display ==
    ret.fn = "fmt" =>
        /\ ret.val = "missing capabilities:" \o Joined(required)
        /\ required = <<Capability("STARTTLS"), Capability("AUTH")>> =>
              ret.val = "missing capabilities: STARTTLS, AUTH"

C10_Witness ==
    /\ ret.fn = "fmt"
    /\ required = <<Capability("STARTTLS"), Capability("AUTH")>>
    /\ ret.val = "missing capabilities: STARTTLS, AUTH"

SetupFailed == op = "secure" /\ HasEvent("setup_err")
Before(e, i) == \E j \in 1..(i - 1) : log[j] = e

\* C2: when the setup callback of connect_secure fails, the operation is in
\* the Failed state with an error, and no TCP connect and no handshake has
\* been attempted (no socket was opened).
C2_SetupFailureNoNetwork ==
    SetupFailed =>
        /\ pc = "Failed"
        /\ err # <<>>
        /\ ~HasEvent("tcp_start")
        /\ ~HasEvent("hs_start")
        /\ stream = "none"
        /\ result.tag \in {"Pending", "Err"}
        /\ result.tag = "Err" => result.err = err

C2_Witness == SetupFailed /\ result.tag = "Err" /\ addr = "10.0.0.2:465"

\* C3: in connect_secure the phases occur in the order setup, TCP connect,
\* handshake: the TCP connect starts only after setup succeeded, the
\* handshake starts only after the TCP connect succeeded, and a failed TCP
\* connect is never followed by a handshake.
C3_PhaseOrder ==
    op = "secure" =>
        /\ \A i \in 1..Len(log) : log[i] = "tcp_start" => Before("setup_ok", i)
        /\ \A i \in 1..Len(log) :
              log[i] = "hs_start" => Before("tcp_ok", i) /\ Before("tcp_start", i)
        /\ \A i \in 1..Len(log) :
              log[i] = "tcp_err" => \A j \in (i + 1)..Len(log) : log[j] # "hs_start"
        /\ pc = "ConnectingTcp" => HasEvent("setup_ok")
        /\ pc = "PerformingHandshake" => HasEvent("tcp_ok")

C3_Witness ==
    /\ op = "secure"
    /\ pc = "Ready"
    /\ log = <<"setup_ok", "tcp_start", "tcp_ok", "hs_start", "hs_ok", "io_from">>

\* C4 as stated: every error of connect_secure that comes from the TCP connect
\* phase or from the handshake phase has passed through map_tls_err.
C4_BothPhasesMapped ==
    (op = "secure" /\ pc = "Failed" /\ (HasEvent("tcp_err") \/ HasEvent("hs_err"))) =>
        /\ err # <<>>
        /\ \E e \in TlsErrors \cup IoErrorKinds : err[1] = map_tls_err(e)
        /\ HasEvent("map_tls_err")

\* C4 amended: in connect_secure a failure of the setup step and a failure
\* of the handshake are mapped into the returned I/O error by map_tls_err;
\* a failure of the TCP connect reaches the caller as the I/O error of the
\* connect itself, without passing through map_tls_err.
C4_TlsFailuresMapped ==
    (op = "secure" /\ pc = "Failed") =>
        /\ err # <<>>
        /\ (HasEvent("setup_err") \/ HasEvent("hs_err")) =>
              /\ \E e \in TlsErrors : err[1] = map_tls_err(e)
              /\ log[Len(log)] = "map_tls_err"
        /\ HasEvent("tcp_err") =>
              /\ \E k \in IoErrorKinds : err[1] = connect_error(k)
              /\ ~HasEvent("map_tls_err")
        /\ result.tag = "Err" => result.err = err

C4_Witness ==
    /\ op = "secure"
    /\ pc = "Failed"
    /\ HasEvent("hs_err")
    /\ result.tag = "Err"
    /\ result.err[1] = map_tls_err("HandshakeFailure")

\* C5: when the setup callback succeeds and the TCP connect fails,
\* connect_secure fails with the error of the transport connect, never with
\* an error of the setup step, and no handshake is attempted.
C5_ConnectFailureIsTransportError ==
    (op = "secure" /\ HasEvent("setup_ok") /\ HasEvent("tcp_err")) =>
        /\ pc = "Failed"
        /\ result.tag = "Err"
        /\ \E k \in IoErrorKinds : result.err = <<connect_error(k)>>
        /\ result.err[1].inner \notin TlsErrors
        /\ ~HasEvent("setup_err")
        /\ ~HasEvent("hs_start")

C5_Witness ==
    /\ op = "secure"
    /\ log = <<"setup_ok", "tcp_start", "tcp_err">>
    /\ result.err = <<connect_error("HostUnreachable")>>

\* C6: the caller holds an Io only in the final successful state:
\* connect_secure after setup, TCP connect and handshake all succeeded,
\* connect_insecure after the TCP connect succeeded; in every other state,
\* an operation abandoned while pending included, the caller holds no Io and
\* no partially established transport is left.
C6_IoOnlyWhenReady ==
    /\ result.tag = "Ok" =>
          /\ pc = "Ready"
          /\ ~dropped
          /\ Len(result.io) = 1
          /\ op = "secure" =>
                /\ HasEvent("setup_ok") /\ HasEvent("tcp_ok") /\ HasEvent("hs_ok")
                /\ result.io[1].socket = "Secure"
          /\ op = "insecure" =>
                /\ HasEvent("tcp_ok")
                /\ result.io[1].socket = "Insecure"
    /\ pc # "Ready" => result.io = <<>>
    /\ result.tag # "Ok" => result.io = <<>>
    /\ dropped => result = Pending /\ stream = "none"

C6_Witness ==
    /\ dropped
    /\ op = "secure"
    /\ pc = "PerformingHandshake"
    /\ result.io = <<>>

TerminalStays == pc \in {"Failed", "Ready"} => (pc' = pc /\ log' = log)

\* C7: one call of connect_secure invokes the setup callback exactly once,
\* before any network activity, and makes at most one TCP connect attempt and
\* at most one handshake attempt; Failed and Ready are terminal, no phase is
\* entered again after them.
C7_OnceAndTerminal ==
    /\ [](op = "secure" =>
            /\ Count("setup_ok") + Count("setup_err") = 1
            /\ log[1] \in {"setup_ok", "setup_err"}
            /\ Count("tcp_start") <= 1
            /\ Count("hs_start") <= 1)
    /\ [][TerminalStays]_vars

C7_Witness ==
    /\ op = "secure"
    /\ pc = "Failed"
    /\ HasEvent("hs_err")
    /\ Count("tcp_start") = 1
    /\ Count("hs_start") = 1

====
